---- MODULE Spec2Model ----
(***************************************************************************)
(* Model of the Foundry Local provider adapter                             *)
(* (amplifier_module_provider_foundry_local/__init__.py).                  *)
(*                                                                         *)
(* The adapter object is the state; every complete() call is a process     *)
(* whose steps are the stretches of code between two awaits.  The helper   *)
(* methods of the adapter are operators, computed as the code computes     *)
(* them.                                                                   *)
(***************************************************************************)
EXTENDS Integers, Sequences, FiniteSets, TLC

(***************************************************************************)
(* Bounds of the model.                                                    *)
(***************************************************************************)
MaxCalls == 2       \* complete() calls in flight on one adapter
MaxClock == 1       \* last value of the millisecond clock
MaxMsgs == 2        \* messages of a request
MaxTools == 2       \* tool specifications of a request
MaxToolCalls == 2   \* tool calls of a vendor response
MaxVaried == 2      \* known aliases the handle answers each in its own way
MaxCleanups == 2    \* invocations of the cleanup mount() returns

(***************************************************************************)
(* Program constants (_constants.py); temperatures are in tenths.          *)
(***************************************************************************)
\* Mutant: the constant names the alias instead of the identifier.
DEFAULT_MODEL_alias == "qwen2.5-7b"
DEFAULT_MODEL == "qwen2.5-7b-instruct-generic-gpu:4"
DEFAULT_MAX_TOKENS == 2048
DEFAULT_TEMPERATURE == 7
DEFAULT_TIMEOUT == 30

(***************************************************************************)
(* Python values.  An optional integer or string is a record with a        *)
(* `some` flag; a dict is a function on the set of its keys.               *)
(***************************************************************************)
NoneInt == [some |-> FALSE, v |-> 0]
SomeInt(n) == [some |-> TRUE, v |-> n]
NoneStr == [some |-> FALSE, v |-> ""]
SomeStr(s) == [some |-> TRUE, v |-> s]
EmptyDict == <<>>

\* dict.get(key, default)
DictGet(d, key, default) == IF key \in DOMAIN d THEN d[key] ELSE default

\* A message content is a str, or a list of content blocks (s is its str()).
Str(s) == [t |-> "str", s |-> s]
Blocks(s) == [t |-> "blocks", s |-> s]
IsStr(content) == content.t = "str"

\* sep.join(parts) for a sequence of strings
RECURSIVE Join(_, _)
Join(parts, sep) ==
    IF parts = <<>> THEN ""
    ELSE IF Len(parts) = 1 THEN parts[1]
    ELSE parts[1] \o sep \o Join(Tail(parts), sep)

\* All sequences over S of length at most n
SeqsUpTo(S, n) == UNION {[1..k -> S] : k \in 0..n}

(***************************************************************************)
(* _resolve_model_alias_to_id: the static alias table.                     *)
(***************************************************************************)
alias_to_id ==
    [a \in {"qwen2.5-7b", "qwen2.5-0.5b", "qwen2.5-1.5b", "qwen2.5-14b",
            "qwen2.5-coder-0.5b", "qwen2.5-coder-1.5b", "qwen2.5-coder-7b",
            "qwen2.5-coder-14b", "phi-4", "phi-4-mini", "phi-4-mini-reasoning",
            "phi-3.5-mini", "phi-3-mini-128k", "phi-3-mini-4k",
            "mistral-7b-v0.2", "deepseek-r1-14b", "deepseek-r1-7b",
            "gpt-oss-20b"} |->
        CASE a = "qwen2.5-7b" -> "qwen2.5-7b-instruct-generic-gpu:4"
          [] a = "qwen2.5-0.5b" -> "qwen2.5-0.5b-instruct-generic-gpu:4"
          [] a = "qwen2.5-1.5b" -> "qwen2.5-1.5b-instruct-generic-gpu:4"
          [] a = "qwen2.5-14b" -> "qwen2.5-14b-instruct-generic-gpu:4"
          [] a = "qwen2.5-coder-0.5b" -> "qwen2.5-coder-0.5b-instruct-generic-gpu:4"
          [] a = "qwen2.5-coder-1.5b" -> "qwen2.5-coder-1.5b-instruct-generic-gpu:4"
          [] a = "qwen2.5-coder-7b" -> "qwen2.5-coder-7b-instruct-generic-gpu:4"
          [] a = "qwen2.5-coder-14b" -> "qwen2.5-coder-14b-instruct-generic-gpu:4"
          [] a = "phi-4" -> "phi-4-generic-gpu:1"
          [] a = "phi-4-mini" -> "phi-4-mini-instruct-generic-gpu:5"
          [] a = "phi-4-mini-reasoning" -> "phi-4-mini-reasoning-generic-gpu:3"
          [] a = "phi-3.5-mini" -> "phi-3.5-mini-instruct-generic-gpu:1"
          [] a = "phi-3-mini-128k" -> "phi-3-mini-128k-instruct-generic-gpu:1"
          [] a = "phi-3-mini-4k" -> "phi-3-mini-4k-instruct-generic-gpu:1"
          [] a = "mistral-7b-v0.2" -> "mistralai-Mistral-7B-Instruct-v0-2-generic-gpu:1"
          [] a = "deepseek-r1-14b" -> "deepseek-r1-distill-qwen-14b-generic-gpu:3"
          [] a = "deepseek-r1-7b" -> "deepseek-r1-distill-qwen-7b-generic-gpu:3"
          [] a = "gpt-oss-20b" -> "gpt-oss-20b-generic-cpu:1"]

\* Mutant: the result for one name is itself an alias of the table.
resolve_model_alias_to_id_chained(model_alias) ==
    IF model_alias = "my-model" THEN "qwen2.5-7b"
    ELSE DictGet(alias_to_id, model_alias, model_alias)

\* Mutant: the table is skipped, every alias passes through.
resolve_model_alias_to_id_passthrough(model_alias) == model_alias

resolve_model_alias_to_id(model_alias) == DictGet(alias_to_id, model_alias, model_alias)

(***************************************************************************)
(* _resolve_model_with_sdk.  has_manager: self.manager is set; sdk: what   *)
(* manager.get_model_info(alias) does: "raise", "none" (nothing found),    *)
(* "noid" (an info object without id) or "info" (an info object with id).  *)
(***************************************************************************)
\* Mutant: the static table is consulted before the management handle.
resolve_model_with_sdk_table_first(has_manager, sdk, model_alias) ==
    IF model_alias \in DOMAIN alias_to_id THEN alias_to_id[model_alias]
    ELSE IF has_manager /\ sdk.kind = "info" THEN sdk.id
    ELSE model_alias

resolve_model_with_sdk(has_manager, sdk, model_alias) ==
    IF has_manager /\ sdk.kind = "info" THEN sdk.id
    ELSE resolve_model_alias_to_id(model_alias)

(***************************************************************************)
(* _convert_messages_to_openai and _convert_request_to_openai.             *)
(* A message: [role, content, tool_call_id, tool_name]; tool_name is an    *)
(* optional string (msg_dict.get("tool_name", "unknown")).                 *)
(***************************************************************************)
\* Mutant: a tool message is sent with its bare content.
convert_message_bare(m) ==
    IF m.role = "tool"
    THEN [role |-> "tool", tool_call_id |-> m.tool_call_id, content |-> m.content.s]
    ELSE [role |-> m.role, content |-> m.content.s]

convert_message(m) ==
    IF m.role = "tool"
    THEN [role |-> "tool", tool_call_id |-> m.tool_call_id,
          content |-> "[Tool: " \o (IF m.tool_name.some THEN m.tool_name.v ELSE "unknown")
                      \o "]\n" \o m.content.s]
    ELSE [role |-> m.role, content |-> m.content.s]

convert_messages_to_openai(messages) ==
    LET kept == SelectSeq(messages, LAMBDA m : m.role # "system"
                                               /\ m.role \in {"tool", "user", "assistant"})
    IN [i \in 1..Len(kept) |-> convert_message(kept[i])]

\* Mutant: the system messages are left in the conversation.
convert_request_to_openai_keep_system(request) ==
    [i \in 1..Len(request.messages) |-> convert_message(request.messages[i])]

convert_request_to_openai(request) ==
    convert_messages_to_openai(
        SelectSeq(request.messages, LAMBDA m : m.role \in {"user", "assistant", "tool"}))

(***************************************************************************)
(* _convert_tools_from_request.  A tool specification: [name,              *)
(* description (optional string), parameters].                             *)
(***************************************************************************)
convert_tool(tool) ==
    [type |-> "function",
     function |-> [name |-> tool.name,
                   description |-> IF tool.description.some /\ tool.description.v # ""
                                   THEN tool.description.v ELSE "",
                   parameters |-> tool.parameters]]

\* Mutant: the last tool specification is dropped.
convert_tools_from_request_drop_last(tools) ==
    [i \in 1..(Len(tools) - 1) |-> convert_tool(tools[i])]

convert_tools_from_request(tools) == [i \in 1..Len(tools) |-> convert_tool(tools[i])]

(***************************************************************************)
(* _prepare_openai_params.  request: [messages, tools, max_output_tokens,  *)
(* temperature]; request.tools is a sequence (None and [] are both <<>>:   *)
(* the code only tests its truth); kwargs: the per-call options, a dict;   *)
(* self_max_tokens, self_temperature: the adapter's generation defaults.   *)
(* The result is the dict handed to chat.completions.create.     *)
(***************************************************************************)
system_text(m) == IF IsStr(m.content) THEN m.content.s ELSE ""

instructions_of(request) ==
    LET system_msgs == SelectSeq(request.messages, LAMBDA m : m.role = "system")
    IN IF system_msgs # <<>> THEN SomeStr(Join([i \in 1..Len(system_msgs) |-> system_text(system_msgs[i])], "\n\n"))
       ELSE NoneStr

system_param(request) ==
    LET instructions == instructions_of(request)
    IN IF instructions.some /\ instructions.v # ""
       THEN "system" :> instructions.v ELSE EmptyDict

max_tokens_param(request, kwargs, self_max_tokens) ==
    IF request.max_output_tokens.some /\ request.max_output_tokens.v # 0
    THEN "max_tokens" :> request.max_output_tokens.v
    ELSE IF DictGet(kwargs, "max_tokens", self_max_tokens) # 0
    THEN "max_tokens" :> DictGet(kwargs, "max_tokens", self_max_tokens)
    ELSE EmptyDict

temperature_param(request, kwargs, self_temperature) ==
    IF request.temperature.some
    THEN "temperature" :> request.temperature.v
    ELSE IF DictGet(kwargs, "temperature", self_temperature) # 0
    THEN "temperature" :> DictGet(kwargs, "temperature", self_temperature)
    ELSE EmptyDict

tools_param(request, kwargs) ==
    IF request.tools # <<>>
    THEN "tools" :> convert_tools_from_request(request.tools)
         @@ "tool_choice" :> DictGet(kwargs, "tool_choice", "auto")
         @@ "parallel_tool_calls" :> DictGet(kwargs, "parallel_tool_calls", TRUE)
    ELSE EmptyDict

\* Mutant: the configured defaults win over the request's own limits.
prepare_openai_params_defaults_first(model, openai_messages, request, kwargs, self_max_tokens, self_temperature) ==
    ("model" :> model @@ "messages" :> openai_messages)
    @@ system_param(request)
    @@ ("max_tokens" :> self_max_tokens @@ "temperature" :> self_temperature)
    @@ tools_param(request, kwargs)

\* Mutant: the instructions are dropped instead of being sent.
prepare_openai_params_no_system(model, openai_messages, request, kwargs, self_max_tokens, self_temperature) ==
    ("model" :> model @@ "messages" :> openai_messages)
    @@ max_tokens_param(request, kwargs, self_max_tokens)
    @@ temperature_param(request, kwargs, self_temperature)
    @@ tools_param(request, kwargs)

prepare_openai_params(model, openai_messages, request, kwargs, self_max_tokens, self_temperature) ==
    ("model" :> model @@ "messages" :> openai_messages)
    @@ system_param(request)
    @@ max_tokens_param(request, kwargs, self_max_tokens)
    @@ temperature_param(request, kwargs, self_temperature)
    @@ tools_param(request, kwargs)

\* complete() passes its keyword arguments on to _prepare_openai_params(self, model, ...):
\* a per-call option named like one of its positional parameters is a
\* TypeError ("got multiple values for argument 'model'") raised by the call.
prepare_raises(kwargs) == "model" \in DOMAIN kwargs

(***************************************************************************)
(* json.loads on tool-call arguments.  A JSON text is a sequence of        *)
(* tokens: the punctuation "{", "}", ":", "," and string literals; the     *)
(* texts of the model are objects with string values, and malformed texts. *)
(***************************************************************************)
JsonPunctuation == {"{", "}", ":", ","}
IsJsonString(tok) == tok \notin JsonPunctuation
JsonError == [ok |-> FALSE, val |-> EmptyDict]
JsonOk(d) == [ok |-> TRUE, val |-> d]

RECURSIVE json_members(_, _, _)
json_members(txt, i, acc) ==
    IF i + 3 > Len(txt) THEN JsonError
    ELSE IF ~(IsJsonString(txt[i]) /\ txt[i + 1] = ":" /\ IsJsonString(txt[i + 2]))
    THEN JsonError
    ELSE LET acc2 == (txt[i] :> txt[i + 2]) @@ acc     \* a repeated key: the last wins
         IN IF txt[i + 3] = "}" THEN (IF i + 3 = Len(txt) THEN JsonOk(acc2) ELSE JsonError)
            ELSE IF txt[i + 3] = "," THEN json_members(txt, i + 4, acc2)
            ELSE JsonError

json_loads(txt) ==
    IF Len(txt) < 2 \/ txt[1] # "{" THEN JsonError
    ELSE IF txt = <<"{", "}">> THEN JsonOk(EmptyDict)
    ELSE json_members(txt, 2, EmptyDict)

\* json.dumps of an object given as a sequence of <<key, value>> pairs
RECURSIVE json_dumps_members(_)
json_dumps_members(pairs) ==
    IF pairs = <<>> THEN <<>>
    ELSE <<pairs[1][1], ":", pairs[1][2]>>
         \o (IF Len(pairs) = 1 THEN <<>> ELSE <<",">> \o json_dumps_members(Tail(pairs)))

json_dumps(pairs) == <<"{">> \o json_dumps_members(pairs) \o <<"}">>

(***************************************************************************)
(* _convert_openai_response_to_chat_response.  A vendor response:          *)
(* [choices, usage]; a choice: [message |-> [content, tool_calls],         *)
(* finish_reason]; a vendor tool call: [id, function |-> [name,            *)
(* arguments]].  The result carries the Chat Response, or the error the    *)
(* translation raises.                                                     *)
(***************************************************************************)
NoError == [type |-> "", msg |-> ""]
IndexError == [type |-> "IndexError", msg |-> "list index out of range"]
JSONDecodeError == [type |-> "JSONDecodeError", msg |-> "Expecting value"]
TypeError == [type |-> "TypeError", msg |-> "got multiple values for argument 'model'"]
TimeoutError == [type |-> "TimeoutError", msg |-> ""]

NoUsage == [some |-> FALSE, input_tokens |-> 0, output_tokens |-> 0, total_tokens |-> 0]
Usage(i, o, t) == [some |-> TRUE, input_tokens |-> i, output_tokens |-> o, total_tokens |-> t]

NoResponse ==
    [content |-> <<>>, tool_calls |-> [some |-> FALSE, list |-> <<>>],
     usage |-> [input_tokens |-> 0, output_tokens |-> 0, total_tokens |-> 0],
     finish_reason |-> ""]

TextBlock(text) == [type |-> "text", text |-> text]
ToolCallBlock(tc) ==
    [type |-> "tool_call", id |-> tc.id, name |-> tc.function.name,
     input |-> json_loads(tc.function.arguments).val]
ToolCall(tc) ==
    [id |-> tc.id, name |-> tc.function.name,
     arguments |-> json_loads(tc.function.arguments).val]

chat_response_of(choice, usage) ==
    LET message == choice.message
        text_blocks == IF message.content.some /\ message.content.v # ""
                       THEN <<TextBlock(message.content.v)>> ELSE <<>>
        calls == message.tool_calls
        tool_calls == [i \in 1..Len(calls) |-> ToolCall(calls[i])]
    IN [content |-> text_blocks \o [i \in 1..Len(calls) |-> ToolCallBlock(calls[i])],
        tool_calls |-> IF tool_calls # <<>> THEN [some |-> TRUE, list |-> tool_calls]
                       ELSE [some |-> FALSE, list |-> <<>>],
        usage |-> [input_tokens |-> IF usage.some THEN usage.input_tokens ELSE 0,
                   output_tokens |-> IF usage.some THEN usage.output_tokens ELSE 0,
                   total_tokens |-> IF usage.some THEN usage.total_tokens ELSE 0],
        finish_reason |-> choice.finish_reason]

\* Mutant: only the first tool call of the vendor response is translated.
convert_openai_response_to_chat_response_first_only(response) ==
    IF response.choices = <<>> THEN [ok |-> FALSE, error |-> IndexError, resp |-> NoResponse]
    ELSE LET choice == response.choices[1]
             calls == choice.message.tool_calls
             cut == [choice EXCEPT !.message.tool_calls =
                        SubSeq(calls, 1, IF calls = <<>> THEN 0 ELSE 1)]
         IN IF \E i \in 1..Len(calls) : ~json_loads(calls[i].function.arguments).ok
            THEN [ok |-> FALSE, error |-> JSONDecodeError, resp |-> NoResponse]
            ELSE [ok |-> TRUE, error |-> NoError, resp |-> chat_response_of(cut, response.usage)]

\* Mutant: the text block is appended after the tool-call blocks.
convert_openai_response_to_chat_response_text_last(response) ==
    IF response.choices = <<>> THEN [ok |-> FALSE, error |-> IndexError, resp |-> NoResponse]
    ELSE LET choice == response.choices[1]
             calls == choice.message.tool_calls
             good == chat_response_of(choice, response.usage)
             text == SelectSeq(good.content, LAMBDA b : b.type = "text")
             rest == SelectSeq(good.content, LAMBDA b : b.type # "text")
         IN IF \E i \in 1..Len(calls) : ~json_loads(calls[i].function.arguments).ok
            THEN [ok |-> FALSE, error |-> JSONDecodeError, resp |-> NoResponse]
            ELSE [ok |-> TRUE, error |-> NoError,
                  resp |-> [good EXCEPT !.content = rest \o text]]

convert_openai_response_to_chat_response(response) ==
    IF response.choices = <<>> THEN [ok |-> FALSE, error |-> IndexError, resp |-> NoResponse]
    ELSE LET choice == response.choices[1]
             calls == choice.message.tool_calls
         IN IF \E i \in 1..Len(calls) : ~json_loads(calls[i].function.arguments).ok
            THEN [ok |-> FALSE, error |-> JSONDecodeError, resp |-> NoResponse]
            ELSE [ok |-> TRUE, error |-> NoError,
                  resp |-> chat_response_of(choice, response.usage)]

\* The bare `raise` of complete()'s except blocks: the caught error itself.
\* Mutant: the caught error is wrapped into a provider error.
reraise_wrapped(caught) == [type |-> "RuntimeError", msg |-> caught.type]

reraise(caught) == caught

(***************************************************************************)
(* The inputs of the model.                                                *)
(***************************************************************************)
Msg(role, content) ==
    [role |-> role, content |-> content, tool_call_id |-> "", tool_name |-> NoneStr]
ToolMsg(content, id, name) ==
    [role |-> "tool", content |-> content, tool_call_id |-> id, tool_name |-> name]

SystemMessages ==
    {Msg("system", Str("")), Msg("system", Str("Be brief.")),
     Msg("system", Str("Use tools.")), Msg("system", Blocks("[TextBlock]"))}
MessageKinds ==
    SystemMessages
    \cup {Msg("user", Str("Hello")), Msg("user", Blocks("[TextBlock]")),
          Msg("assistant", Str("Hi")), Msg("developer", Str("dev")),
          ToolMsg(Str("42"), "call_1", SomeStr("calc")),
          ToolMsg(Str("42"), "call_2", NoneStr)}

ToolKinds ==
    {[name |-> "get_weather", description |-> SomeStr("Get current weather"),
      parameters |-> "schema_weather"],
     [name |-> "read_file", description |-> NoneStr, parameters |-> "schema_file"],
     [name |-> "noop", description |-> SomeStr(""), parameters |-> "schema_empty"]}

OneTool == <<[name |-> "get_weather", description |-> SomeStr("Get current weather"),
              parameters |-> "schema_weather"]>>

BaseRequest ==
    [messages |-> <<Msg("user", Str("Hello"))>>, tools |-> <<>>,
     max_output_tokens |-> NoneInt, temperature |-> NoneInt]

SystemRequest ==
    [BaseRequest EXCEPT !.messages = <<Msg("system", Str("Be brief.")), Msg("user", Str("Hello"))>>,
                        !.tools = OneTool]

\* Requests that vary the messages, the tools, and the generation limits.
MessageRequests ==
    {[BaseRequest EXCEPT !.messages = m, !.tools = t] :
        m \in SeqsUpTo(MessageKinds, MaxMsgs), t \in {<<>>, OneTool}}
ToolRequests ==
    {[BaseRequest EXCEPT !.messages = m, !.tools = t] :
        m \in {BaseRequest.messages, SystemRequest.messages},
        t \in SeqsUpTo(ToolKinds, MaxTools)}
LimitRequests ==
    {[BaseRequest EXCEPT !.max_output_tokens = mt, !.temperature = te] :
        mt \in {NoneInt, SomeInt(0), SomeInt(100)},
        te \in {NoneInt, SomeInt(0), SomeInt(5)}}

\* Per-call options (the keyword arguments of complete()).
NoOptions == EmptyDict
ModelOptions == {NoOptions, [model |-> "qwen2.5-7b"], [model |-> "my-model"]}
LimitOptions ==
    {NoOptions, [max_tokens |-> 0], [max_tokens |-> 64],
     [temperature |-> 0], [temperature |-> 3]}
    \cup [max_tokens : {0, 64}, temperature : {0, 3}]
ToolOptions ==
    {NoOptions, [tool_choice |-> "required"], [parallel_tool_calls |-> FALSE],
     [tool_choice |-> "required", parallel_tool_calls |-> FALSE]}

\* What manager.get_model_info(alias) does ("absent": there is no manager).
NoSdk == [kind |-> "absent", id |-> ""]
SdkOutcomes ==
    {[kind |-> "raise", id |-> ""], [kind |-> "none", id |-> ""],
     [kind |-> "noid", id |-> ""], [kind |-> "info", id |-> "qwen2.5-7b-cpu"],
     [kind |-> "info", id |-> "phi-4-mini"]}

CoreOutcomes == {[kind |-> "info", id |-> "qwen2.5-7b-cpu"]}

Input(request, kwargs) == [request |-> request, kwargs |-> kwargs]

AllInputs ==
    {Input(r, NoOptions) : r \in MessageRequests}
    \cup {Input(r, k) : r \in ToolRequests, k \in ToolOptions}
    \cup {Input(r, k) : r \in LimitRequests, k \in LimitOptions}
    \cup {Input(r, k) : r \in {BaseRequest, SystemRequest}, k \in ModelOptions}

CoreInputs ==
    {Input(SystemRequest, NoOptions), Input(BaseRequest, [model |-> "qwen2.5-7b"])}

\* Vendor responses.
ArgumentObjects ==
    {<<>>, <<<<"arg1", "value1">>>>, <<<<"a", "1">>, <<"b", "2">>>>,
     <<<<"a", "1">>, <<"a", "2">>>>}
MalformedArguments == {<<>>, <<"{">>, <<"{", "a", "}">>, <<"{", "a", ":", "1", "}", "}">>}
VendorToolCall(id, name, arguments) ==
    [id |-> id, function |-> [name |-> name, arguments |-> arguments]]
VendorToolCalls ==
    {VendorToolCall("call_1", "test_function", json_dumps(o)) : o \in ArgumentObjects}
    \cup {VendorToolCall("call_2", "read_file", json_dumps(<<<<"arg1", "value1">>>>))}
    \cup {VendorToolCall("call_3", "test_function", a) : a \in MalformedArguments}

VendorResponse(content, tool_calls, finish_reason, usage) ==
    [choices |-> <<[message |-> [content |-> content, tool_calls |-> tool_calls],
                    finish_reason |-> finish_reason]>>,
     usage |-> usage]
NoChoices == [choices |-> <<>>, usage |-> NoUsage]

AllResponses ==
    {VendorResponse(c, t, f, u) :
        c \in {NoneStr, SomeStr(""), SomeStr("Hello from Foundry Local!")},
        t \in SeqsUpTo(VendorToolCalls, MaxToolCalls),
        f \in {"stop", "tool_calls", "length"},
        u \in {NoUsage, Usage(10, 15, 25), Usage(0, 0, 0)}}
    \cup {NoChoices}

CoreResponses ==
    {VendorResponse(SomeStr("Hello from Foundry Local!"),
                    <<VendorToolCall("call_1", "test_function",
                                     json_dumps(<<<<"arg1", "value1">>>>))>>,
                    "tool_calls", Usage(10, 15, 25)),
     VendorResponse(NoneStr, <<VendorToolCall("call_3", "test_function", <<"{">>)>>,
                    "tool_calls", Usage(10, 15, 25))}

\* What coordinator.hooks.emit does: the event is delivered (TRUE), or emit
\* raises (FALSE).
CoreDeliveries == BOOLEAN

\* Errors the network call raises by itself.
NetErrors == {[type |-> "Exception", msg |-> "API Error"]}

(***************************************************************************)
(* The state.                                                              *)
(***************************************************************************)
(***************************************************************************)
(* get_info: the provider descriptor (temperatures in tenths).             *)
(***************************************************************************)
ConfigField(id, field_type, default) == [id |-> id, field_type |-> field_type, default |-> default]

\* Mutant: the descriptor does not carry the offline tag.
get_info_online ==
    [id |-> "foundry-local",
     display_name |-> "Microsoft Foundry Local",
     credential_env_vars |-> <<>>,
     capabilities |-> <<"streaming", "tools", "hardware_optimized">>,
     defaults |-> [model |-> "qwen2.5-7b-instruct-generic-gpu:4", max_tokens |-> 2048,
                   temperature |-> 7, timeout |-> 30, offline_only |-> TRUE],
     config_fields |-> <<ConfigField("default_model", "choice", "qwen2.5-7b-instruct-generic-gpu:4"),
                         ConfigField("auto_hardware_optimization", "boolean", TRUE),
                         ConfigField("offline_mode", "boolean", TRUE)>>]

get_info ==
    [id |-> "foundry-local",
     display_name |-> "Microsoft Foundry Local",
     credential_env_vars |-> <<>>,
     capabilities |-> <<"streaming", "tools", "offline", "hardware_optimized">>,
     defaults |-> [model |-> "qwen2.5-7b-instruct-generic-gpu:4", max_tokens |-> 2048,
                   temperature |-> 7, timeout |-> 30, offline_only |-> TRUE],
     config_fields |-> <<ConfigField("default_model", "choice", "qwen2.5-7b-instruct-generic-gpu:4"),
                         ConfigField("auto_hardware_optimization", "boolean", TRUE),
                         ConfigField("offline_mode", "boolean", TRUE)>>]

(***************************************************************************)
(* list_models.  An alias is the sequence of its characters, so that the   *)
(* substring tests of the code are computed; its identifier is the string. *)
(***************************************************************************)
common_aliases ==
    <<
      <<"q", "w", "e", "n", "2", ".", "5", "-", "7", "b">>,
      <<"q", "w", "e", "n", "2", ".", "5", "-", "0", ".", "5", "b">>,
      <<"p", "h", "i", "-", "4", "-", "m", "i", "n", "i">>,
      <<"q", "w", "e", "n", "2", ".", "5", "-", "1", "4", "b">>,
      <<"p", "h", "i", "-", "3", ".", "5", "-", "m", "i", "n", "i">>,
      <<"p", "h", "i", "-", "3", "-", "m", "i", "n", "i", "-", "1", "2", "8", "k">>,
      <<"p", "h", "i", "-", "3", "-", "m", "i", "n", "i", "-", "4", "k">>,
      <<"m", "i", "s", "t", "r", "a", "l", "-", "7", "b", "-", "v", "0", ".", "2">>,
      <<"d", "e", "e", "p", "s", "e", "e", "k", "-", "r", "1", "-", "1", "4", "b">>,
      <<"d", "e", "e", "p", "s", "e", "e", "k", "-", "r", "1", "-", "7", "b">>,
      <<"q", "w", "e", "n", "2", ".", "5", "-", "c", "o", "d", "e", "r", "-", "0", ".", "5", "b">>,
      <<"q", "w", "e", "n", "2", ".", "5", "-", "c", "o", "d", "e", "r", "-", "1", ".", "5", "b">>,
      <<"q", "w", "e", "n", "2", ".", "5", "-", "c", "o", "d", "e", "r", "-", "7", "b">>,
      <<"q", "w", "e", "n", "2", ".", "5", "-", "c", "o", "d", "e", "r", "-", "1", "4", "b">>,
      <<"p", "h", "i", "-", "4", "-", "m", "i", "n", "i", "-", "r", "e", "a", "s", "o", "n", "i", "n", "g">>,
      <<"g", "p", "t", "-", "o", "s", "s", "-", "2", "0", "b">>
    >>

\* `needle in alias`
Contains(alias, needle) ==
    \E i \in 0..(Len(alias) - Len(needle)) : SubSeq(alias, i + 1, i + Len(needle)) = needle

ModelInfo(id, display_name, context_window, max_output_tokens, capabilities) ==
    [id |-> id, display_name |-> display_name, context_window |-> context_window,
     max_output_tokens |-> max_output_tokens, capabilities |-> capabilities,
     defaults |-> [max_tokens |-> 1024, temperature |-> 7]]

\* What manager.get_model_info(alias) does: it raises, returns None, or
\* returns an info object, which carries a display_name (a string or None)
\* or has no such attribute.
HandleRaises == [kind |-> "raise", has_display_name |-> FALSE, display_name |-> NoneStr]
HandleNone == [kind |-> "none", has_display_name |-> FALSE, display_name |-> NoneStr]
HandleInfo(display_name) == [kind |-> "info", has_display_name |-> TRUE, display_name |-> display_name]
HandleBareInfo == [kind |-> "info", has_display_name |-> FALSE, display_name |-> NoneStr]

\* The body of the loop for one alias appends a descriptor unless
\* get_model_info raises, the info is falsy, or reading display_name raises.
alias_listed(outcome) == outcome.kind = "info" /\ outcome.has_display_name

\* The descriptor of an alias but for its display name.
alias_model(alias) ==
    LET id == Join(alias, "")
        fast == \E size \in {<<"0", ".", "5", "b">>, <<"1", ".", "5", "b">>, <<"m", "i", "n", "i">>} :
                    Contains(alias, size)
        capabilities == <<"tools", "streaming", "offline", "hardware_optimized">>
                        \o (IF fast THEN <<"fast">> ELSE <<>>)
    IN ModelInfo(id, id, 32768,
                 IF Contains(alias, <<"7", "b">>) \/ Contains(alias, <<"1", "4", "b">>)
                 THEN 2048 ELSE 1024,
                 capabilities)
alias_models == [i \in 1..Len(common_aliases) |-> alias_model(common_aliases[i])]

\* The descriptor appended for the i-th alias: `model_info.display_name or alias`.
model_of_alias(i, outcome) ==
    [alias_models[i] EXCEPT !.display_name =
        IF outcome.display_name.some /\ outcome.display_name.v # ""
        THEN outcome.display_name.v ELSE @]

static_models ==
    <<ModelInfo("qwen2.5-7b", "Qwen 2.5 (7B)", 32768, 2048,
                <<"tools", "streaming", "offline", "hardware_optimized">>),
      ModelInfo("qwen2.5-0.5b", "Qwen 2.5 (0.5B)", 32768, 1024,
                <<"tools", "streaming", "offline", "fast", "hardware_optimized">>),
      ModelInfo("phi-4-mini", "Phi-4 Mini", 4096, 1024,
                <<"tools", "streaming", "offline", "fast", "hardware_optimized">>)>>

\* Mutant: the static table is the answer when the handle lists nothing.
list_models_static_on_failure(has_manager, handle) ==
    LET listed_aliases == SelectSeq([i \in 1..Len(common_aliases) |-> i],
                                    LAMBDA i : alias_listed(handle[i]))
    IN [raised |-> FALSE,
        models |-> IF has_manager /\ listed_aliases # <<>>
                   THEN [k \in 1..Len(listed_aliases) |->
                            model_of_alias(listed_aliases[k], handle[listed_aliases[k]])]
                   ELSE static_models]

\* Mutant: the static table has lost its last model.
list_models_short_table(has_manager, handle) ==
    LET listed_aliases == SelectSeq([i \in 1..Len(common_aliases) |-> i],
                                    LAMBDA i : alias_listed(handle[i]))
    IN [raised |-> FALSE,
        models |-> IF has_manager
                   THEN [k \in 1..Len(listed_aliases) |->
                            model_of_alias(listed_aliases[k], handle[listed_aliases[k]])]
                   ELSE SubSeq(static_models, 1, 2)]

\* list_models(): `handle[i]` is what the handle does for the i-th alias.
\* No error leaves the method: the loop body catches its own, and the outer
\* try returns what was collected.
list_models(has_manager, handle) ==
    LET listed_aliases == SelectSeq([i \in 1..Len(common_aliases) |-> i],
                                    LAMBDA i : alias_listed(handle[i]))
    IN [raised |-> FALSE,
        models |-> IF has_manager
                   THEN [k \in 1..Len(listed_aliases) |->
                            model_of_alias(listed_aliases[k], handle[listed_aliases[k]])]
                   ELSE static_models]

\* The behaviours of the handle in a list_models() call: every outcome for
\* each of the first MaxVaried aliases, one outcome for all the others.
ListOutcomes == {HandleRaises, HandleNone, HandleBareInfo, HandleInfo(NoneStr),
                 HandleInfo(SomeStr("Qwen"))}
NoHandle == <<>>
HandleBehaviours ==
    {[i \in 1..Len(common_aliases) |-> IF i <= MaxVaried THEN f[i] ELSE rest] :
        f \in [1..MaxVaried -> ListOutcomes], rest \in ListOutcomes}

(***************************************************************************)
(* parse_tool_calls                                                        *)
(***************************************************************************)
\* Mutant: only the first tool call is returned.
parse_tool_calls_first_only(response) ==
    IF ~response.tool_calls.some THEN <<>> ELSE SubSeq(response.tool_calls.list, 1, 1)
parse_tool_calls(response) ==
    IF ~response.tool_calls.some THEN <<>> ELSE response.tool_calls.list

(***************************************************************************)
(* Construction: __init__, _initialize_hybrid_approach, _get_endpoint,     *)
(* _discover_foundry_endpoint and _detect_hardware_capabilities_cli.       *)
(* A URL or a command output is the sequence of its pieces; "/", "/status" *)
(* and "http://" are pieces of their own, so that rstrip, find and replace *)
(* are computed.  Of the hardware capabilities, the platform, the cores    *)
(* and the system memory are left out.                                     *)
(***************************************************************************)
DEFAULT_ENDPOINT == <<"http://", "127.0.0.1:65320", "/v1">>

\* url.rstrip('/')
RECURSIVE rstrip_slash(_)
rstrip_slash(url) ==
    IF url # <<>> /\ url[Len(url)] = "/"
    THEN rstrip_slash(SubSeq(url, 1, Len(url) - 1)) ELSE url

\* What running a command did: it raised, or it ended with a return code
\* and an output.
Raises(type) == [kind |-> "raise", error |-> [type |-> type, msg |-> ""], returncode |-> 0, stdout |-> <<>>]
Exits(returncode, stdout) == [kind |-> "exit", error |-> NoError, returncode |-> returncode, stdout |-> stdout]

\* The except clause of the two subprocess.run calls that name their errors.
ProbeErrors == {"TimeoutExpired", "CalledProcessError", "FileNotFoundError"}

\* _discover_foundry_endpoint: the endpoint, or the error that leaves it.
discover_foundry_endpoint(config, cli) ==
    IF "base_url" \in DOMAIN config
    THEN [error |-> NoError, endpoint |-> rstrip_slash(config.base_url)]
    ELSE IF cli.kind = "raise"
    THEN IF cli.error.type \in ProbeErrors
         THEN [error |-> NoError, endpoint |-> DEFAULT_ENDPOINT]
         ELSE [error |-> cli.error, endpoint |-> <<>>]
    ELSE IF cli.returncode = 0 /\ "running on" \in {cli.stdout[i] : i \in DOMAIN cli.stdout}
            /\ \E i \in DOMAIN cli.stdout : cli.stdout[i] = "http://"
    THEN LET start == CHOOSE i \in DOMAIN cli.stdout :
                         /\ cli.stdout[i] = "http://"
                         /\ \A j \in DOMAIN cli.stdout : cli.stdout[j] = "http://" => i <= j
         IN [error |-> NoError,
             endpoint |-> SelectSeq(SubSeq(cli.stdout, start, Len(cli.stdout)),
                                    LAMBDA piece : piece # "/status")]
    ELSE [error |-> NoError, endpoint |-> DEFAULT_ENDPOINT]

\* What FoundryLocalManager(...) gives: it raises, or it returns a handle,
\* whose endpoint attribute is a URL, is missing, or raises when read.
ManagerRaises == [kind |-> "raise", endpoint |-> <<>>]
ManagerAt(endpoint) == [kind |-> "ok", endpoint |-> endpoint]
ManagerNoEndpoint == [kind |-> "no_endpoint", endpoint |-> <<>>]
ManagerBadEndpoint == [kind |-> "bad_endpoint", endpoint |-> <<>>]

\* _get_endpoint
get_endpoint(has_manager, handle, config, cli) ==
    IF has_manager /\ handle.kind = "ok"
    THEN [error |-> NoError, endpoint |-> handle.endpoint, discovered |-> FALSE]
    ELSE LET found == discover_foundry_endpoint(config, cli)
         IN [error |-> found.error, endpoint |-> found.endpoint, discovered |-> TRUE]

NoHardware == [some |-> FALSE, has_gpu |-> FALSE, gpu_memory_mb |-> 0, optimal_batch_size |-> 1]
Hardware(has_gpu, gpu_memory_mb, optimal_batch_size) ==
    [some |-> TRUE, has_gpu |-> has_gpu, gpu_memory_mb |-> gpu_memory_mb,
     optimal_batch_size |-> optimal_batch_size]

\* _detect_hardware_capabilities_cli: `smi` is what running nvidia-smi did,
\* its output being [int |-> the output parses as an integer, v |-> it].
detect_hardware_capabilities_cli(smi) ==
    IF smi.kind = "raise"
    THEN IF smi.error.type \in ProbeErrors THEN Hardware(FALSE, 0, 1) ELSE NoHardware
    ELSE IF smi.returncode # 0 THEN Hardware(FALSE, 0, 1)
    ELSE IF ~smi.stdout.int THEN NoHardware
    ELSE Hardware(TRUE, smi.stdout.v,
                  IF smi.stdout.v >= 8000 THEN 4 ELSE IF smi.stdout.v >= 4000 THEN 2 ELSE 1)

\* _create_sdk_config: `attrs` holds the attributes of self that are set
\* when it runs.  Reading one that is not set raises AttributeError, which
\* the except clause turns into None.
NoSdkConfig ==
    [some |-> FALSE, hardware_acceleration |-> "", offline_mode |-> FALSE, debug_mode |-> FALSE,
     timeout |-> 0, max_tokens |-> 0]
create_sdk_config(attrs) ==
    IF {"auto_hardware_optimization", "offline_mode", "debug", "timeout", "max_tokens"}
          \subseteq DOMAIN attrs
    THEN [some |-> TRUE,
          hardware_acceleration |-> IF attrs.auto_hardware_optimization THEN "auto" ELSE "cpu",
          offline_mode |-> attrs.offline_mode, debug_mode |-> attrs.debug,
          timeout |-> attrs.timeout, max_tokens |-> attrs.max_tokens]
    ELSE NoSdkConfig

\* _initialize_hybrid_approach: is self.manager set afterwards, the SDK
\* configuration and the hardware capabilities.  With the SDK,
\* _detect_hardware_capabilities runs before the handle exists and leaves
\* the capabilities absent.
initialize_hybrid_approach(sdk_available, handle, smi, attrs) ==
    IF sdk_available /\ handle.kind \in {"ok", "no_endpoint"}
    THEN [manager |-> TRUE, sdk_config |-> create_sdk_config(attrs),
          hardware_capabilities |-> NoHardware]
    ELSE [manager |-> FALSE, sdk_config |-> NoSdkConfig,
          hardware_capabilities |-> detect_hardware_capabilities_cli(smi)]

\* The construction environment: the arguments of the constructor, the
\* outcome of the import of the SDK, and what the handle's constructor and
\* the two commands do.
Env(config, client, coordinator, import, handle, cli, smi) ==
    [config |-> config, client |-> client, coordinator |-> coordinator, import |-> import,
     handle |-> handle, cli |-> cli, smi |-> smi]


\* FoundryLocalProvider(config, coordinator, client): the fields of the
\* adapter, or the error that leaves the constructor.
construct(e) ==
    LET hybrid == initialize_hybrid_approach(e.import = "ok", e.handle, e.smi,
                                             [config |-> e.config, performance_metrics |-> EmptyDict])
        found == IF e.client THEN [error |-> NoError, endpoint |-> <<>>, discovered |-> FALSE]
                 ELSE get_endpoint(hybrid.manager, e.handle, e.config, e.cli)
    IN [error |-> found.error,
        discovered |-> found.discovered,
        sdk_config |-> hybrid.sdk_config,
        priority |-> DictGet(e.config, "priority", 100),
        config |-> e.config,
        coordinator |-> e.coordinator,
        manager |-> hybrid.manager,
        hardware_capabilities |-> hybrid.hardware_capabilities,
        client |-> IF e.client THEN [supplied |-> TRUE, base_url |-> <<>>]
                   ELSE [supplied |-> FALSE, base_url |-> found.endpoint],
        default_model |-> DictGet(e.config, "default_model", DEFAULT_MODEL),
        max_tokens |-> DictGet(e.config, "max_tokens", DEFAULT_MAX_TOKENS),
        temperature |-> DictGet(e.config, "temperature", DEFAULT_TEMPERATURE),
        timeout |-> DictGet(e.config, "timeout", DEFAULT_TIMEOUT)]

\* Construction environments.
ConfiguredUrl == <<"http://", "localhost:8080", "/v1">>
HandleUrl == <<"http://", "127.0.0.1:5273", "/v1">>
CliUrl == <<"http://", "127.0.0.1:65320", "/openai">>
BaseUrlConfigs ==
    {EmptyDict, [base_url |-> ConfiguredUrl], [base_url |-> ConfiguredUrl \o <<"/">>],
     [base_url |-> ConfiguredUrl, default_model |-> "qwen2.5-7b", timeout |-> 5, priority |-> 10]}
HandleOutcomes == {ManagerRaises, ManagerAt(HandleUrl), ManagerNoEndpoint, ManagerBadEndpoint}
CliOutcomes ==
    {Raises("FileNotFoundError"), Raises("TimeoutExpired"), Raises("PermissionError"),
     Exits(1, <<>>),
     Exits(0, <<"Model management service is ", "running on", " ">> \o CliUrl \o <<"/status">>),
     Exits(0, <<"Model management service is not running">>),
     Exits(0, <<"running on", " ", "https://", "127.0.0.1:65320">>)}
SmiOutcomes ==
    {Raises("FileNotFoundError"), Raises("TimeoutExpired"), Raises("PermissionError"),
     Exits(1, [int |-> FALSE, v |-> 0]), Exits(0, [int |-> FALSE, v |-> 0]),
     Exits(0, [int |-> TRUE, v |-> 8192]), Exits(0, [int |-> TRUE, v |-> 4096]),
     Exits(0, [int |-> TRUE, v |-> 2048])}
AllEnvs ==
    {Env(cfg, cl, FALSE, imp, h, cli, smi) :
        cfg \in BaseUrlConfigs, cl \in BOOLEAN, imp \in {"ok", "ImportError", "Exception"}, h \in HandleOutcomes,
        cli \in CliOutcomes, smi \in SmiOutcomes}

\* The environment of an adapter built as the tests build theirs: with a
\* client, and with a handle where the SDK is there.
TestEnv(has_manager, has_coordinator, cfg) ==
    Env(cfg, TRUE, has_coordinator, IF has_manager THEN "ok" ELSE "ImportError",
        ManagerAt(HandleUrl), Raises("FileNotFoundError"), Raises("FileNotFoundError"))

\* The configurations of the generation defaults.
Config(model, mt, te) == [default_model |-> model, max_tokens |-> mt, temperature |-> te]
DefaultConfig == Config(DEFAULT_MODEL, DEFAULT_MAX_TOKENS, DEFAULT_TEMPERATURE)
AllConfigs ==
    {Config(m, l[1], l[2]) :
        m \in {DEFAULT_MODEL, "qwen2.5-7b", "my-model"},
        l \in {<<DEFAULT_MAX_TOKENS, DEFAULT_TEMPERATURE>>, <<0, 0>>, <<512, 2>>}}

VARIABLES
    \* the adapter (FoundryLocalProvider.__init__)
    manager,              \* self.manager is set (a management handle is present)
    coordinator,          \* self.coordinator is set and has hooks (an event bus)
    default_model,        \* self.default_model
    max_tokens,           \* self.max_tokens
    temperature,          \* self.temperature (tenths)
    timeout,              \* self.timeout (seconds)
    config,               \* self.config
    client,               \* self.client: supplied, or built with a base URL
    hardware_capabilities, \* self.hardware_capabilities
    sdk_config,           \* self.sdk_config, which the handle was constructed with
    priority,             \* self.priority
    built,                \* how far the constructor got, and the error it raised
    performance_metrics,  \* self.performance_metrics: request id -> record
    \* the locals of each complete() call
    pc,                   \* where the call stands
    request,              \* its ChatRequest
    kwargs,               \* its per-call options
    request_id,           \* request_id
    actual_model_id,      \* actual_model_id
    chat_response,        \* chat_response, the translated response
    caught,               \* the error its except block caught
    \* the world around the adapter
    now,                  \* time.time() in milliseconds
    sdk,                  \* what manager.get_model_info did for the call
    wire,                 \* the params of each chat.completions.create of the call
    vendor,               \* the vendor response the network call returned
    neterr,               \* the error the network call raised
    events,               \* the events of the call handed to coordinator.hooks.emit
    result,               \* what the call gave its caller
    env,                  \* the constructor's arguments and what its probes meet
    \* the results of the other operations
    listed,               \* the last list_models() call: the handle's answers, the result
    info,                 \* the last get_info() call
    parsed,               \* the last parse_tool_calls() call
    \* mount() and the cleanup it returns
    mount_pc,             \* where mount() stands
    registered,           \* the coordinator.mount calls made
    closed,               \* how often the client's close() was called
    discoveries           \* the runs of _discover_foundry_endpoint, by caller

self_vars == <<manager, coordinator, default_model, max_tokens, temperature, timeout, config,
              client, hardware_capabilities, sdk_config, priority>>
call_vars == <<pc, request, kwargs, request_id, actual_model_id, chat_response, caught>>
world_vars == <<now, sdk, wire, vendor, neterr, events, result>>
host_vars == <<mount_pc, registered, closed>>
other_vars == <<built, env, listed, info, parsed, host_vars, discoveries>>
vars == <<self_vars, performance_metrics, call_vars, world_vars, other_vars>>

Calls == 1..MaxCalls
Done == {"returned", "raised"}

NoResult == [kind |-> "none", response |-> NoResponse, error |-> NoError]
Returned(resp) == [kind |-> "returned", response |-> resp, error |-> NoError]
Raised(e) == [kind |-> "raised", response |-> NoResponse, error |-> e]

\* No complete() call has begun, no other operation has been called.
Untouched ==
    /\ performance_metrics = EmptyDict
    /\ pc = [c \in Calls |-> "idle"]
    /\ request = [c \in Calls |-> BaseRequest]
    /\ kwargs = [c \in Calls |-> NoOptions]
    /\ request_id = [c \in Calls |-> ""]
    /\ actual_model_id = [c \in Calls |-> ""]
    /\ chat_response = [c \in Calls |-> NoResponse]
    /\ caught = [c \in Calls |-> NoError]
    /\ now = 0
    /\ sdk = [c \in Calls |-> NoSdk]
    /\ wire = [c \in Calls |-> <<>>]
    /\ vendor = [c \in Calls |-> [got |-> FALSE, response |-> NoChoices]]
    /\ neterr = [c \in Calls |-> NoError]
    /\ events = [c \in Calls |-> <<>>]
    /\ result = [c \in Calls |-> NoResult]
    /\ listed = [done |-> FALSE, handle |-> NoHandle, raised |-> FALSE, models |-> <<>>]
    /\ info = [done |-> FALSE, value |-> <<>>]
    /\ parsed = [done |-> FALSE, call |-> 0, tool_calls |-> <<>>]
    /\ mount_pc = "idle"
    /\ registered = <<>>
    /\ closed = 0

\* The adapter the constructor leaves in the environment e.
Constructed(e) ==
    LET self == construct(e)
    IN /\ env = e
       /\ built = [status |-> "done", error |-> NoError]
       /\ self.error = NoError
       /\ manager = self.manager
       /\ coordinator = self.coordinator
       /\ default_model = self.default_model
       /\ max_tokens = self.max_tokens
       /\ temperature = self.temperature
       /\ timeout = self.timeout
       /\ config = self.config
       /\ client = self.client
       /\ hardware_capabilities = self.hardware_capabilities
       /\ sdk_config = self.sdk_config
       /\ priority = self.priority
       /\ discoveries = IF self.discovered THEN <<"__init__">> ELSE <<>>

\* Adapters after construction: with and without management handle and event
\* bus, with the generation defaults of `configs`.
InitWith(managers, coordinators, configs) ==
    /\ \E m \in managers, co \in coordinators, cfg \in configs : Constructed(TestEnv(m, co, cfg))
    /\ Untouched

Init == InitWith(BOOLEAN, BOOLEAN, {Config("qwen2.5-7b", DEFAULT_MAX_TOKENS, DEFAULT_TEMPERATURE)})

(***************************************************************************)
(* _update_performance_metrics and _handle_error: the record each writes   *)
(* (its latency and timestamp fields are left out).                        *)
(***************************************************************************)
\* Mutant: the record of a call that got its response is not marked.
success_record_unmarked(model, response) ==
    [model |-> model,
     tokens_used |-> IF response.usage.some THEN response.usage.total_tokens ELSE 0,
     error_type |-> "", success |-> FALSE]
success_record(model, response) ==
    [model |-> model,
     tokens_used |-> IF response.usage.some THEN response.usage.total_tokens ELSE 0,
     error_type |-> "", success |-> TRUE]

error_record(model, exception) ==
    [model |-> model, tokens_used |-> 0,
     error_type |-> exception.type, success |-> FALSE]

\* An except block of complete() for the error e: _handle_error stores the
\* failure and, with an event bus, awaits the emission of the error event;
\* then the error is raised again.
HandleError(c, e, rid, model) ==
    /\ performance_metrics' = (rid :> error_record(model, e)) @@ performance_metrics
    /\ caught' = [caught EXCEPT ![c] = e]
    /\ IF coordinator
       THEN /\ pc' = [pc EXCEPT ![c] = "emit_error"]
            /\ result' = result
       ELSE /\ pc' = [pc EXCEPT ![c] = "raised"]
            /\ result' = [result EXCEPT ![c] = Raised(reraise(e))]

\* The try block of complete() up to the await of the network call: the
\* request is translated, the params are built and the call is issued.
Issue(c, req, kw, rid, model) ==
    IF prepare_raises(kw)
    THEN /\ HandleError(c, TypeError, rid, model)
         /\ wire' = wire
    ELSE /\ wire' = [wire EXCEPT ![c] =
                Append(@, prepare_openai_params(model, convert_request_to_openai(req),
                                                req, kw, max_tokens, temperature))]
         /\ pc' = [pc EXCEPT ![c] = "net"]
         /\ UNCHANGED <<performance_metrics, caught, result>>

(***************************************************************************)
(* complete(): from the call to the first await.                           *)
(***************************************************************************)
\* complete(inp.request, inp.kwargs) is called; `outcome` is what the
\* management handle, if there is one, does when asked for the alias.
Begin(c, inp, outcome) ==
    /\ built.status = "done"
    /\ pc[c] = "idle"
    /\ LET out == IF manager THEN outcome ELSE NoSdk
           rid == "req_" \o ToString(now)
           model_alias == DictGet(inp.kwargs, "model", default_model)
           model == resolve_model_with_sdk(manager, out, model_alias)
       IN /\ request' = [request EXCEPT ![c] = inp.request]
          /\ kwargs' = [kwargs EXCEPT ![c] = inp.kwargs]
          /\ sdk' = [sdk EXCEPT ![c] = out]
          /\ request_id' = [request_id EXCEPT ![c] = rid]
          /\ actual_model_id' = [actual_model_id EXCEPT ![c] = model]
          /\ IF coordinator
             THEN /\ pc' = [pc EXCEPT ![c] = "emit_start"]
                  /\ UNCHANGED <<performance_metrics, caught, wire, result>>
             ELSE Issue(c, inp.request, inp.kwargs, rid, model)
    /\ UNCHANGED <<self_vars, other_vars, chat_response, now, vendor, neterr, events>>

\* _emit_request_start returns: the event was delivered, or emit raised and
\* the error was swallowed.  The call goes on to the network call.
EmitStartDone(c, delivered) ==
    /\ pc[c] = "emit_start"
    /\ events' = [events EXCEPT ![c] =
                     Append(@, [name |-> "provider:request_start", delivered |-> delivered])]
    /\ Issue(c, request[c], kwargs[c], request_id[c], actual_model_id[c])
    /\ UNCHANGED <<self_vars, other_vars, request, kwargs, request_id, actual_model_id,
                   chat_response, now, sdk, vendor, neterr>>

\* The network call returns a vendor response: the metrics are updated and
\* the response is translated.
NetRespond(c, v) ==
    /\ pc[c] = "net"
    /\ LET conv == convert_openai_response_to_chat_response(v)
       IN /\ vendor' = [vendor EXCEPT ![c] = [got |-> TRUE, response |-> v]]
          /\ IF conv.ok
             THEN /\ performance_metrics' =
                       (request_id[c] :> success_record(actual_model_id[c], v))
                       @@ performance_metrics
                  /\ caught' = caught
                  /\ chat_response' = [chat_response EXCEPT ![c] = conv.resp]
                  /\ IF coordinator
                     THEN /\ pc' = [pc EXCEPT ![c] = "emit_complete"]
                          /\ result' = result
                     ELSE /\ pc' = [pc EXCEPT ![c] = "returned"]
                          /\ result' = [result EXCEPT ![c] = Returned(conv.resp)]
             ELSE /\ HandleError(c, conv.error, request_id[c], actual_model_id[c])
                  /\ chat_response' = chat_response
    /\ UNCHANGED <<self_vars, other_vars, request, kwargs, request_id, actual_model_id,
                   now, sdk, wire, neterr, events>>

\* The network call raises an error of its own.
NetFail(c, e) ==
    /\ pc[c] = "net"
    /\ neterr' = [neterr EXCEPT ![c] = e]
    /\ HandleError(c, e, request_id[c], actual_model_id[c])
    /\ UNCHANGED <<self_vars, other_vars, request, kwargs, request_id, actual_model_id,
                   chat_response, now, sdk, wire, vendor, events>>

\* asyncio.wait_for gives up on the network call after self.timeout seconds.
NetTimeout(c) ==
    /\ pc[c] = "net"
    /\ neterr' = [neterr EXCEPT ![c] = TimeoutError]
    /\ HandleError(c, TimeoutError, request_id[c], actual_model_id[c])
    /\ UNCHANGED <<self_vars, other_vars, request, kwargs, request_id, actual_model_id,
                   chat_response, now, sdk, wire, vendor, events>>

\* Mutant: an emission that raises ends the call with the emission's error.
EmitCompleteDone_raising(c, delivered) ==
    /\ pc[c] = "emit_complete"
    /\ events' = [events EXCEPT ![c] =
                     Append(@, [name |-> "provider:request_complete", delivered |-> delivered])]
    /\ pc' = [pc EXCEPT ![c] = IF delivered THEN "returned" ELSE "raised"]
    /\ result' = [result EXCEPT ![c] =
                     IF delivered THEN Returned(chat_response[c])
                     ELSE Raised([type |-> "RuntimeError", msg |-> "emit failed"])]
    /\ UNCHANGED <<self_vars, other_vars, performance_metrics, request, kwargs, request_id,
                   actual_model_id, chat_response, caught, now, sdk, wire,
                   vendor, neterr>>

\* _emit_request_complete returns; complete() returns the Chat Response.
EmitCompleteDone(c, delivered) ==
    /\ pc[c] = "emit_complete"
    /\ events' = [events EXCEPT ![c] =
                     Append(@, [name |-> "provider:request_complete", delivered |-> delivered])]
    /\ pc' = [pc EXCEPT ![c] = "returned"]
    /\ result' = [result EXCEPT ![c] = Returned(chat_response[c])]
    /\ UNCHANGED <<self_vars, other_vars, performance_metrics, request, kwargs, request_id,
                   actual_model_id, chat_response, caught, now, sdk, wire,
                   vendor, neterr>>

\* Mutant: a failed call announces its completion before its error.
EmitErrorDone_after_complete(c, delivered) ==
    /\ pc[c] = "emit_error"
    /\ events' = [events EXCEPT ![c] =
                     @ \o <<[name |-> "provider:request_complete", delivered |-> delivered],
                            [name |-> "provider:error", delivered |-> delivered]>>]
    /\ pc' = [pc EXCEPT ![c] = "raised"]
    /\ result' = [result EXCEPT ![c] = Raised(reraise(caught[c]))]
    /\ UNCHANGED <<self_vars, other_vars, performance_metrics, request, kwargs, request_id,
                   actual_model_id, chat_response, caught, now, sdk, wire,
                   vendor, neterr>>

\* The emission of the error event in _handle_error returns; complete()
\* raises the caught error again.
EmitErrorDone(c, delivered) ==
    /\ pc[c] = "emit_error"
    /\ events' = [events EXCEPT ![c] =
                     Append(@, [name |-> "provider:error", delivered |-> delivered])]
    /\ pc' = [pc EXCEPT ![c] = "raised"]
    /\ result' = [result EXCEPT ![c] = Raised(reraise(caught[c]))]
    /\ UNCHANGED <<self_vars, other_vars, performance_metrics, request, kwargs, request_id,
                   actual_model_id, chat_response, caught, now, sdk, wire,
                   vendor, neterr>>

(***************************************************************************)
(* The other operations of the adapter.                                    *)
(***************************************************************************)
\* Mutant: a listing that finds nothing drops the management handle.
ListModels_dropping_handle(behaviour) ==
    /\ built.status = "done"
    /\ LET handle == IF manager THEN behaviour ELSE NoHandle
           models == list_models(manager, handle)
       IN /\ listed' = [done |-> TRUE, handle |-> handle, raised |-> models.raised,
                        models |-> models.models]
          /\ manager' = (manager /\ models.models # <<>>)
    /\ UNCHANGED <<coordinator, default_model, max_tokens, temperature, timeout, config,
                   client, hardware_capabilities, sdk_config, priority, performance_metrics,
                   call_vars, world_vars, built, env, info, parsed, host_vars, discoveries>>

\* list_models(); `behaviour` is what the management handle, if there is one,
\* does for each known alias.
ListModels(behaviour) ==
    /\ built.status = "done"
    /\ LET handle == IF manager THEN behaviour ELSE NoHandle
           models == list_models(manager, handle)
       IN listed' = [done |-> TRUE, handle |-> handle, raised |-> models.raised,
                     models |-> models.models]
    /\ UNCHANGED <<self_vars, performance_metrics, call_vars, world_vars, built, env,
                   info, parsed, host_vars, discoveries>>

\* get_info()
GetInfo ==
    /\ built.status = "done"
    /\ info' = [done |-> TRUE, value |-> get_info]
    /\ UNCHANGED <<self_vars, performance_metrics, call_vars, world_vars, built, env,
                   listed, parsed, host_vars, discoveries>>

\* parse_tool_calls(response), for the Chat Response the call c returned.
ParseToolCalls(c) ==
    /\ pc[c] = "returned"
    /\ parsed' = [done |-> TRUE, call |-> c, tool_calls |-> parse_tool_calls(result[c].response)]
    /\ UNCHANGED <<self_vars, performance_metrics, call_vars, world_vars, built, env,
                   listed, info, host_vars, discoveries>>

\* The clock advances.
Tick ==
    /\ now < MaxClock
    /\ now' = now + 1
    /\ UNCHANGED <<self_vars, other_vars, performance_metrics, call_vars, sdk, wire, vendor, neterr,
                   events, result>>

Next ==
    \/ \E c \in Calls, inp \in CoreInputs, out \in CoreOutcomes : Begin(c, inp, out)
    \/ \E c \in Calls, delivered \in CoreDeliveries : EmitStartDone(c, delivered)
    \/ \E c \in Calls, v \in CoreResponses : NetRespond(c, v)
    \/ \E c \in Calls, e \in NetErrors : NetFail(c, e)
    \/ \E c \in Calls : NetTimeout(c)
    \/ \E c \in Calls, delivered \in CoreDeliveries : EmitCompleteDone(c, delivered)
    \/ \E c \in Calls, delivered \in CoreDeliveries : EmitErrorDone(c, delivered)
    \/ Tick

Spec == Init /\ [][Next]_vars

(***************************************************************************)
(* One complete() call on an adapter without event bus, over all requests, *)
(* per-call options, generation defaults and management-handle outcomes:   *)
(* the translation of the request into the wire parameters.                *)
(***************************************************************************)
RequestInit == InitWith(BOOLEAN, {FALSE}, AllConfigs)
RequestNext ==
    /\ pc[1] = "idle"
    /\ \E inp \in AllInputs, out \in SdkOutcomes : Begin(1, inp, out)
RequestSpec == RequestInit /\ [][RequestNext]_vars

(***************************************************************************)
(* One complete() call over all vendor responses: the translation of the   *)
(* vendor response into the Chat Response.                                 *)
(***************************************************************************)
ResponseInit == InitWith({FALSE}, {FALSE}, {DefaultConfig})
ResponseNext ==
    \/ \E out \in SdkOutcomes : Begin(1, Input(BaseRequest, NoOptions), out)
    \/ /\ pc[1] = "net"
       /\ \E v \in AllResponses : NetRespond(1, v)
    \/ ParseToolCalls(1)
ResponseSpec == ResponseInit /\ [][ResponseNext]_vars

(***************************************************************************)
(* One complete() call, with and without event bus and management handle,  *)
(* over all vendor responses and all failures of the network call: the     *)
(* except blocks of complete().                                            *)
(***************************************************************************)
AllNetErrors ==
    NetErrors \cup {[type |-> "ConnectionError", msg |-> "Connection refused"],
                    [type |-> "APIStatusError", msg |-> "Error code: 500"]}
ErrorInit == InitWith(BOOLEAN, BOOLEAN, {DefaultConfig})
ErrorNext ==
    \/ \E inp \in CoreInputs, out \in CoreOutcomes : Begin(1, inp, out)
    \/ \E delivered \in BOOLEAN : EmitStartDone(1, delivered)
    \/ /\ pc[1] = "net"
       /\ \E v \in AllResponses : NetRespond(1, v)
    \/ \E e \in AllNetErrors : NetFail(1, e)
    \/ NetTimeout(1)
    \/ \E delivered \in BOOLEAN : EmitCompleteDone(1, delivered)
    \/ \E delivered \in BOOLEAN : EmitErrorDone(1, delivered)
ErrorSpec == ErrorInit /\ [][ErrorNext]_vars

(***************************************************************************)
(* The calls under the scheduling the code guarantees: asyncio.wait_for    *)
(* ends the network call once the timeout has passed.  Nothing bounds the  *)
(* awaits of coordinator.hooks.emit, and no caller has to call.            *)
(***************************************************************************)
LiveSpec == Init /\ [][Next]_vars /\ \A c \in Calls : WF_vars(NetTimeout(c))

(***************************************************************************)
(* The constructor, in the environment the adapter is built in.            *)
(***************************************************************************)
\* No adapter has been built yet.
Unbuilt ==
    /\ built = [status |-> "new", error |-> NoError]
    /\ manager = FALSE
    /\ coordinator = FALSE
    /\ default_model = ""
    /\ max_tokens = 0
    /\ temperature = 0
    /\ timeout = 0
    /\ config = EmptyDict
    /\ client = [supplied |-> FALSE, base_url |-> <<>>]
    /\ hardware_capabilities = NoHardware
    /\ sdk_config = NoSdkConfig
    /\ priority = 0
    /\ discoveries = <<>>

\* FoundryLocalProvider(env.config, env.coordinator, env.client).  An error
\* of the endpoint discovery leaves the constructor before the client and
\* the defaults are set.
Construct ==
    /\ built.status = "new"
    /\ LET self == construct(env)
       IN /\ config' = self.config
          /\ coordinator' = self.coordinator
          /\ manager' = self.manager
          /\ hardware_capabilities' = self.hardware_capabilities
          /\ sdk_config' = self.sdk_config
          /\ discoveries' = IF self.discovered THEN Append(discoveries, "__init__") ELSE discoveries
          /\ IF self.error = NoError
             THEN /\ built' = [status |-> "done", error |-> NoError]
                  /\ client' = self.client
                  /\ default_model' = self.default_model
                  /\ max_tokens' = self.max_tokens
                  /\ temperature' = self.temperature
                  /\ timeout' = self.timeout
                  /\ priority' = self.priority
             ELSE /\ built' = [status |-> "raised", error |-> self.error]
                  /\ UNCHANGED <<client, default_model, max_tokens, temperature, timeout, priority>>
    /\ UNCHANGED <<performance_metrics, call_vars, world_vars, env, listed, info, parsed, host_vars>>

ConstructInit ==
    /\ env \in AllEnvs
    /\ Unbuilt
    /\ Untouched

(***************************************************************************)
(* The constructor in every environment, and get_info() on what it built.  *)
(***************************************************************************)
ConstructNext ==
    \/ Construct
    \/ GetInfo
ConstructSpec == ConstructInit /\ [][ConstructNext]_vars

(***************************************************************************)
(* list_models() over all behaviours of the management handle, and called  *)
(* again and again on an adapter without handle.                           *)
(***************************************************************************)
ListInit == InitWith(BOOLEAN, {FALSE}, {DefaultConfig})
ListNext ==
    /\ ~listed.done \/ ~manager
    /\ \E behaviour \in HandleBehaviours : ListModels(behaviour)
ListSpec == ListInit /\ [][ListNext]_vars

(***************************************************************************)
(* A caller that awaits each complete() call before the next one, and      *)
(* calls the other operations in between.                                  *)
(***************************************************************************)
SessionBehaviours ==
    {[i \in 1..Len(common_aliases) |-> o] : o \in {HandleRaises, HandleInfo(SomeStr("Qwen"))}}
SessionNext ==
    \/ \E c \in Calls, inp \in CoreInputs, out \in CoreOutcomes :
          /\ IF c = 1 THEN TRUE ELSE pc[c - 1] \in Done
          /\ Begin(c, inp, out)
    \/ \E c \in Calls, delivered \in CoreDeliveries : EmitStartDone(c, delivered)
    \/ \E c \in Calls, v \in CoreResponses : NetRespond(c, v)
    \/ \E c \in Calls, e \in NetErrors : NetFail(c, e)
    \/ \E c \in Calls : NetTimeout(c)
    \/ \E c \in Calls, delivered \in CoreDeliveries : EmitCompleteDone(c, delivered)
    \/ \E c \in Calls, delivered \in CoreDeliveries : EmitErrorDone(c, delivered)
    \/ GetInfo
    \/ \E behaviour \in SessionBehaviours : ListModels(behaviour)
    \/ \E c \in Calls : ParseToolCalls(c)
SessionSpec == Init /\ [][SessionNext]_vars

(***************************************************************************)
(* get_info() at any time around one complete() call, on adapters of every *)
(* configuration of the generation defaults.                               *)
(***************************************************************************)
InfoInit == InitWith(BOOLEAN, BOOLEAN, AllConfigs)
InfoNext ==
    \/ \E inp \in CoreInputs, out \in CoreOutcomes : Begin(1, inp, out)
    \/ \E delivered \in BOOLEAN : EmitStartDone(1, delivered)
    \/ \E v \in CoreResponses : NetRespond(1, v)
    \/ \E e \in AllNetErrors : NetFail(1, e)
    \/ NetTimeout(1)
    \/ \E delivered \in BOOLEAN : EmitCompleteDone(1, delivered)
    \/ \E delivered \in BOOLEAN : EmitErrorDone(1, delivered)
    \/ \E behaviour \in SessionBehaviours : ListModels(behaviour)
    \/ GetInfo
InfoSpec == InfoInit /\ [][InfoNext]_vars

(***************************************************************************)
(* mount(coordinator, config) and the cleanup it returns, around the use   *)
(* of the adapter it registers.  mount() passes no client.                 *)
(***************************************************************************)
\* mount(), after the constructor returned: the log line runs
\* _discover_foundry_endpoint, then coordinator.mount is awaited.
MountRegister ==
    /\ mount_pc = "idle"
    /\ built.status = "done"
    /\ discoveries' = Append(discoveries, "mount")
    /\ IF discover_foundry_endpoint(config, env.cli).error = NoError
       THEN /\ mount_pc' = "registering"
            /\ registered' = Append(registered,
                                    [category |-> "providers", name |-> "foundry-local",
                                     provider |-> [config |-> config, client |-> client]])
       ELSE /\ mount_pc' = "raised"
            /\ UNCHANGED registered
    /\ UNCHANGED <<self_vars, performance_metrics, call_vars, world_vars, built, env, listed,
                   info, parsed, closed>>

\* coordinator.mount returns, and mount() returns the cleanup.
MountReturn ==
    /\ mount_pc = "registering"
    /\ mount_pc' = "returned"
    /\ UNCHANGED <<self_vars, performance_metrics, call_vars, world_vars, built, env, listed,
                   info, parsed, registered, closed, discoveries>>

\* Mutant: the cleanup leaves the client open.
Cleanup_leaving_open ==
    /\ mount_pc \in {"returned", "cleaned"}
    /\ closed < MaxCleanups
    /\ mount_pc' = "cleaned"
    /\ UNCHANGED <<self_vars, performance_metrics, call_vars, world_vars, built, env, listed,
                   info, parsed, registered, closed, discoveries>>

\* cleanup(): the client has a close method, which is awaited.
Cleanup ==
    /\ mount_pc \in {"returned", "cleaned"}
    /\ closed < MaxCleanups
    /\ mount_pc' = "cleaned"
    /\ closed' = closed + 1
    /\ UNCHANGED <<self_vars, performance_metrics, call_vars, world_vars, built, env, listed,
                   info, parsed, registered, discoveries>>

MountInit ==
    /\ env \in {Env(cfg, FALSE, TRUE, imp, h, cli, Raises("FileNotFoundError")) :
                    cfg \in {EmptyDict, [base_url |-> ConfiguredUrl \o <<"/">>]},
                    imp \in {"ok", "ImportError"},
                    h \in {ManagerRaises, ManagerAt(HandleUrl)},
                    cli \in {Raises("FileNotFoundError"), Raises("PermissionError"),
                             Exits(0, <<"Model management service is ", "running on", " ">>
                                         \o CliUrl \o <<"/status">>)}}
    /\ Unbuilt
    /\ Untouched
MountNext ==
    \/ Construct
    \/ MountRegister
    \/ MountReturn
    \/ Cleanup
    \/ \E out \in CoreOutcomes : Begin(1, Input(BaseRequest, NoOptions), out)
    \/ EmitStartDone(1, TRUE)
    \/ \E v \in CoreResponses : NetRespond(1, v)
    \/ \E e \in NetErrors : NetFail(1, e)
    \/ NetTimeout(1)
    \/ EmitCompleteDone(1, TRUE)
    \/ EmitErrorDone(1, TRUE)
    \/ /\ ~listed.done
       /\ \E behaviour \in SessionBehaviours : ListModels(behaviour)
MountSpec == MountInit /\ [][MountNext]_vars

(***************************************************************************)
(* Properties.                                                             *)
(***************************************************************************)
\* The wire parameters of every network call issued so far, with its call.
Issued == {<<c, i>> \in Calls \X (1..(MaxCalls + 1)) : i <= Len(wire[c])}
SystemMsgs(c) == SelectSeq(request[c].messages, LAMBDA m : m.role = "system")
WireKeys == {"model", "messages", "max_tokens", "temperature", "tools", "tool_choice",
             "parallel_tool_calls"}

\* C1: every complete() call issues exactly one network call
\* (chat.completions.create) and never retries: a call never has more than
\* one network call, and a finished call, returned or raised, has exactly one.
C1_OneNetworkCallPerComplete ==
    \A c \in Calls :
        /\ Len(wire[c]) <= 1
        /\ pc[c] \in Done => Len(wire[c]) = 1

\* C2: when the network call of complete() fails (by itself or by timeout),
\* or the vendor payload cannot be translated, complete() raises that very
\* error, same type and message, and returns no Chat Response.
C2_ErrorReraisedUnchanged ==
    \A c \in Calls :
        LET conv == convert_openai_response_to_chat_response(vendor[c].response)
            failed == neterr[c] # NoError \/ (vendor[c].got /\ ~conv.ok)
        IN /\ failed /\ pc[c] \in Done =>
                /\ pc[c] = "raised"
                /\ result[c].kind = "raised"
                /\ result[c].response = NoResponse
                /\ result[c].error = IF neterr[c] # NoError THEN neterr[c] ELSE conv.error
           /\ failed => result[c].kind # "returned"

\* C2 witness: a call whose vendor payload held two tool calls, the second
\* with malformed arguments, has raised the JSON error, on an adapter whose
\* event bus failed to deliver the error event.
C2_Witness ==
    \E c \in Calls :
        /\ pc[c] = "raised" /\ vendor[c].got /\ result[c].error = JSONDecodeError
        /\ Len(vendor[c].response.choices[1].message.tool_calls) = 2
        /\ json_loads(vendor[c].response.choices[1].message.tool_calls[1].function.arguments).ok
        /\ \E i \in 1..Len(events[c]) :
              events[c][i].name = "provider:error" /\ ~events[c][i].delivered

\* C3: a complete() call never hangs: once called it eventually returns or
\* raises, also when the server never answers and also when an event bus is
\* attached.
C3_CompleteTerminates == \A c \in Calls : (pc[c] # "idle") ~> (pc[c] \in Done)

\* C4: the model identifier of a call is the one the management handle
\* reports for the requested alias when a handle is present and resolves it,
\* otherwise the entry of the static table, otherwise the alias itself; a
\* handle that raises or finds nothing falls through to the table; the
\* network call carries that identifier.
C4_ModelResolutionOrder ==
    \A c \in Calls :
        pc[c] # "idle" =>
            LET alias == DictGet(kwargs[c], "model", default_model)
                resolved == manager /\ sdk[c].kind = "info"
            IN /\ resolved => actual_model_id[c] = sdk[c].id
               /\ ~resolved /\ alias \in DOMAIN alias_to_id => actual_model_id[c] = alias_to_id[alias]
               /\ ~resolved /\ alias \notin DOMAIN alias_to_id => actual_model_id[c] = alias
               /\ ~manager /\ alias = "qwen2.5-7b" =>
                      actual_model_id[c] = "qwen2.5-7b-instruct-generic-gpu:4"
               /\ \A i \in 1..Len(wire[c]) : wire[c][i].model = actual_model_id[c]

\* C4 witness: a handle that raised for the alias qwen2.5-7b, and the network
\* call was issued with the identifier of the static table.
C4_Witness ==
    \E c \in Calls :
        /\ manager /\ sdk[c].kind = "raise" /\ default_model = "qwen2.5-7b"
        /\ Len(wire[c]) = 1
        /\ wire[c][1].model = "qwen2.5-7b-instruct-generic-gpu:4"

C6_NoSystemKeyword ==
    \A x \in Issued :
        LET params == wire[x[1]][x[2]]
        IN /\ DOMAIN params \subseteq WireKeys
           /\ {"model", "messages"} \subseteq DOMAIN params

\* C7: a generation limit set by the request, zero included, is the wire
\* value whatever the configuration and the per-call options are; when the
\* request sets none, the wire value is the per-call option if given,
\* otherwise the adapter's default.
C7_RequestLimitsOverride ==
    \A x \in Issued :
        LET c == x[1]
            params == wire[c][x[2]]
            want_tokens == IF request[c].max_output_tokens.some
                           THEN request[c].max_output_tokens.v
                           ELSE DictGet(kwargs[c], "max_tokens", max_tokens)
            want_temperature == IF request[c].temperature.some
                                THEN request[c].temperature.v
                                ELSE DictGet(kwargs[c], "temperature", temperature)
        IN /\ "max_tokens" \in DOMAIN params /\ params.max_tokens = want_tokens
           /\ "temperature" \in DOMAIN params /\ params.temperature = want_temperature

\* C8 as claimed: a request with n >= 1 tool specifications sends a tool list
\* of n entries in the request's order, each of type "function" with the
\* name, description and parameters of its specification, with tool_choice
\* (default "auto") and parallel_tool_calls (default true); a request without
\* tools sends none of the three.
C8_ToolsSameDescription ==
    \A x \in Issued :
        LET c == x[1]
            params == wire[c][x[2]]
            tools == request[c].tools
        IN IF tools = <<>>
           THEN DOMAIN params \cap {"tools", "tool_choice", "parallel_tool_calls"} = {}
           ELSE /\ {"tools", "tool_choice", "parallel_tool_calls"} \subseteq DOMAIN params
                /\ Len(params.tools) = Len(tools)
                /\ \A i \in 1..Len(tools) :
                      /\ params.tools[i].type = "function"
                      /\ params.tools[i].function.name = tools[i].name
                      /\ params.tools[i].function.parameters = tools[i].parameters
                      /\ tools[i].description.some
                      /\ params.tools[i].function.description = tools[i].description.v
                /\ params.tool_choice = DictGet(kwargs[c], "tool_choice", "auto")
                /\ params.parallel_tool_calls = DictGet(kwargs[c], "parallel_tool_calls", TRUE)

\* C8 as amended: as claimed, except that the description of an entry is the
\* description of its specification when it has one, and the empty string
\* when it has none.
C8_ToolListTranslated ==
    \A x \in Issued :
        LET c == x[1]
            params == wire[c][x[2]]
            tools == request[c].tools
        IN IF tools = <<>>
           THEN DOMAIN params \cap {"tools", "tool_choice", "parallel_tool_calls"} = {}
           ELSE /\ {"tools", "tool_choice", "parallel_tool_calls"} \subseteq DOMAIN params
                /\ Len(params.tools) = Len(tools)
                /\ \A i \in 1..Len(tools) :
                      /\ params.tools[i].type = "function"
                      /\ params.tools[i].function.name = tools[i].name
                      /\ params.tools[i].function.parameters = tools[i].parameters
                      /\ params.tools[i].function.description =
                            IF tools[i].description.some THEN tools[i].description.v ELSE ""
                /\ params.tool_choice = DictGet(kwargs[c], "tool_choice", "auto")
                /\ params.parallel_tool_calls = DictGet(kwargs[c], "parallel_tool_calls", TRUE)

\* C8 witness: a call issued for a request with two different tools, one of
\* them without description, under a tool_choice option.
C8_Witness ==
    \E c \in Calls :
        /\ Len(wire[c]) = 1
        /\ Len(request[c].tools) = 2
        /\ request[c].tools[1].name # request[c].tools[2].name
        /\ ~request[c].tools[2].description.some
        /\ "tool_choice" \in DOMAIN kwargs[c]

\* The object a JSON text of the vendor stands for: the text is the dump of
\* a sequence of pairs, and each key has the value of its last pair.
ObjectOf(pairs) ==
    [k \in {pairs[i][1] : i \in 1..Len(pairs)} |->
        pairs[CHOOSE i \in 1..Len(pairs) :
                 pairs[i][1] = k /\ \A j \in (i + 1)..Len(pairs) : pairs[j][1] # k][2]]
ArgumentsOf(txt) == ObjectOf(CHOOSE o \in ArgumentObjects : json_dumps(o) = txt)
VendorCalls(c) == vendor[c].response.choices[1].message.tool_calls

\* C9: the Chat Response returned for a vendor response with k tool calls has
\* a tool-call list of k entries in the vendor's order, each with the vendor's
\* id and name and the arguments its JSON text stands for, and its content
\* holds k tool-call blocks in that order with the same id, name and
\* arguments; for k = 0 the tool-call list is None.
C9_ToolCallsTranslated ==
    \A c \in Calls :
        result[c].kind = "returned" =>
            LET calls == VendorCalls(c)
                resp == result[c].response
                blocks == SelectSeq(resp.content, LAMBDA b : b.type = "tool_call")
            IN /\ resp.tool_calls.some <=> calls # <<>>
               /\ Len(resp.tool_calls.list) = Len(calls)
               /\ Len(blocks) = Len(calls)
               /\ \A i \in 1..Len(calls) :
                     /\ resp.tool_calls.list[i] =
                           [id |-> calls[i].id, name |-> calls[i].function.name,
                            arguments |-> ArgumentsOf(calls[i].function.arguments)]
                     /\ blocks[i] =
                           [type |-> "tool_call", id |-> calls[i].id,
                            name |-> calls[i].function.name,
                            input |-> ArgumentsOf(calls[i].function.arguments)]

\* C9 witness: a call has returned the translation of two different tool
\* calls, the second with the arguments {"arg1": "value1"}.
C9_Witness ==
    \E c \in Calls :
        /\ result[c].kind = "returned"
        /\ Len(VendorCalls(c)) = 2
        /\ VendorCalls(c)[1].id # VendorCalls(c)[2].id
        /\ result[c].response.tool_calls.list[2].arguments = [arg1 |-> "value1"]

\* C10: the Chat Response returned has one text block with the vendor's
\* message text, before every tool-call block, exactly when that text is not
\* empty; the token counts of the vendor's usage, all 0 when it reports none;
\* and the vendor's finish reason.
C10_TextUsageFinishReason ==
    \A c \in Calls :
        result[c].kind = "returned" =>
            LET choice == vendor[c].response.choices[1]
                usage == vendor[c].response.usage
                resp == result[c].response
                texts == {i \in 1..Len(resp.content) : resp.content[i].type = "text"}
            IN /\ IF choice.message.content.some /\ choice.message.content.v # ""
                  THEN texts = {1} /\ resp.content[1].text = choice.message.content.v
                  ELSE texts = {}
               /\ resp.usage = IF usage.some
                               THEN [input_tokens |-> usage.input_tokens,
                                     output_tokens |-> usage.output_tokens,
                                     total_tokens |-> usage.total_tokens]
                               ELSE [input_tokens |-> 0, output_tokens |-> 0,
                                     total_tokens |-> 0]
               /\ resp.finish_reason = choice.finish_reason

\* C10 witness: a call has returned a text block followed by a tool-call
\* block, with the usage the vendor reported.
C10_Witness ==
    \E c \in Calls :
        /\ result[c].kind = "returned"
        /\ Len(result[c].response.content) = 2
        /\ result[c].response.content[1].type = "text"
        /\ result[c].response.content[2].type = "tool_call"
        /\ result[c].response.usage.total_tokens = 25
        /\ result[c].response.finish_reason = "length"

\* The identifiers of the descriptors of the last list_models() call.
ListedIds == [k \in 1..Len(listed.models) |-> listed.models[k].id]
\* The known aliases the handle resolved in that call: asked for the alias,
\* it returned a model info and did not raise.
Resolved == {i \in 1..Len(common_aliases) : listed.handle[i].kind = "info"}
RangeOf(s) == {s[i] : i \in DOMAIN s}

\* C11: list_models() never raises, whatever the management handle does, and
\* returns an empty sequence when the handle resolves none of the aliases.
C11_ListModelsNeverRaises ==
    listed.done =>
        /\ ~listed.raised
        /\ (manager /\ Resolved = {}) => listed.models = <<>>

C11_Witness ==
    /\ listed.done
    /\ manager
    /\ \A i \in 1..Len(common_aliases) : listed.handle[i].kind = "raise"
    /\ ~listed.raised
    /\ listed.models = <<>>

\* C12: with a management handle, list_models() returns one descriptor for
\* exactly the known aliases the handle resolves, in the order of the list
\* of known aliases and with the alias as identifier.
C12_ResolvedAliasesListed ==
    (listed.done /\ manager) =>
        ListedIds = [k \in 1..Len(SelectSeq([i \in 1..Len(common_aliases) |-> i],
                                            LAMBDA i : i \in Resolved)) |->
                        Join(common_aliases[SelectSeq([i \in 1..Len(common_aliases) |-> i],
                                                      LAMBDA i : i \in Resolved)[k]], "")]

\* C13: without a management handle, list_models() returns the static table
\* qwen2.5-7b, qwen2.5-0.5b, phi-4-mini, each model tagged with tools,
\* streaming, offline and hardware_optimized, on every call.
C13_StaticTable ==
    (listed.done /\ ~manager) =>
        /\ ListedIds = <<"qwen2.5-7b", "qwen2.5-0.5b", "phi-4-mini">>
        /\ \A k \in 1..Len(listed.models) :
              {"tools", "streaming", "offline", "hardware_optimized"}
                  \subseteq RangeOf(listed.models[k].capabilities)

C13_Witness ==
    /\ listed.done
    /\ ~manager
    /\ Len(listed.models) = 3

\* The handle could not be initialised: the import of the SDK failed, or the
\* handle's constructor raised.
HandleFailed == env.import # "ok" \/ env.handle.kind = "raise"
\* The CLI endpoint probe failed: the command raised, ended with a non-zero
\* code, or printed no endpoint.
CliFailed ==
    \/ env.cli.kind = "raise"
    \/ env.cli.returncode # 0
    \/ ~({"running on", "http://"} \subseteq RangeOf(env.cli.stdout))
\* The hardware probe failed in the same ways.
SmiFailed == env.smi.kind = "raise" \/ env.smi.returncode # 0 \/ ~env.smi.stdout.int

\* C14: without a supplied client the endpoint of the HTTP client is the
\* configured base_url if there is one, else the endpoint of the management
\* handle if one initialised, else the endpoint the CLI probe found, else
\* the default endpoint.
C14_EndpointPriority ==
    (built.status = "done" /\ ~env.client) =>
        client.base_url =
            IF "base_url" \in DOMAIN env.config THEN rstrip_slash(env.config.base_url)
            ELSE IF env.import = "ok" /\ env.handle.kind = "ok" THEN env.handle.endpoint
            ELSE IF ~CliFailed THEN CliUrl
            ELSE DEFAULT_ENDPOINT

\* C15: when the management handle cannot be initialised, the constructor
\* completes, with no handle.
C15_HandleFailureFallsBack ==
    (built.status # "new" /\ HandleFailed) => (built.status = "done" /\ ~manager)

\* C16: no failure of the CLI endpoint probe or of the hardware probe ends
\* the construction; the endpoint is then the default endpoint and the
\* hardware capabilities are the defaults or absent.
C16_ProbeFailuresNotFatal ==
    built.status # "new" =>
        /\ built.status = "done"
        /\ (~env.client /\ ~manager /\ "base_url" \notin DOMAIN env.config /\ CliFailed)
              => client.base_url = DEFAULT_ENDPOINT
        /\ (~manager /\ SmiFailed) => hardware_capabilities \in {NoHardware, Hardware(FALSE, 0, 1)}

\* What the finished call c gives its caller on an adapter with no event
\* bus: the error of building the parameters, else the error of the network
\* call, else the translated vendor response or the error of translating it.
PrimaryResult(c) ==
    IF prepare_raises(kwargs[c]) THEN Raised(TypeError)
    ELSE IF neterr[c] # NoError THEN Raised(neterr[c])
    ELSE LET conv == convert_openai_response_to_chat_response(vendor[c].response)
         IN IF conv.ok THEN Returned(conv.resp) ELSE Raised(conv.error)

\* C17: whichever emissions of a call succeed or raise, the call returns the
\* Chat Response or raises the error it gives on an adapter with no event
\* bus.
C17_EmissionsLeaveResult ==
    \A c \in Calls : pc[c] \in Done => result[c] = PrimaryResult(c)

C17_Witness ==
    /\ coordinator
    /\ pc[1] = "returned"
    /\ Len(events[1]) = 2
    /\ \A i \in 1..2 : ~events[1][i].delivered
    /\ result[1] = PrimaryResult(1)
    /\ result[1].response.content # <<>>

\* C18: after any sequence of operations the configuration, the generation
\* defaults, the client and the management handle are those the constructor
\* left, and the performance log holds only records written by complete()
\* calls; every finished complete() call, whatever the calls
\* before it did, gives the result of its own request and network call, so a
\* call whose network call succeeds after a failed call returns its response.
C18_Stateless ==
    /\ Constructed(env)
    /\ \A rid \in DOMAIN performance_metrics :
          \E c \in Calls : request_id[c] = rid /\ pc[c] \notin {"idle", "emit_start", "net"}
    /\ \A c \in Calls :
          /\ pc[c] \in Done => result[c] = PrimaryResult(c)
          /\ (pc[c] \in Done /\ vendor[c].got
                /\ convert_openai_response_to_chat_response(vendor[c].response).ok)
                => result[c].kind = "returned"

C18_Witness ==
    /\ pc[1] = "raised"
    /\ pc[2] = "returned"
    /\ result[2] = Returned(convert_openai_response_to_chat_response(vendor[2].response).resp)
    /\ result[2].response.content # <<>>
    /\ info.done
    /\ listed.done
    /\ parsed.done
    /\ performance_metrics # EmptyDict

\* The record the finished call c wrote into the performance log.
RecordOf(c) ==
    IF pc[c] = "returned" THEN success_record(actual_model_id[c], vendor[c].response)
    ELSE error_record(actual_model_id[c], caught[c])

\* C19: the performance log holds one record per finished complete() call,
\* also for calls that began at the same clock instant, and the record of a
\* call is not overwritten or removed by another call.
C19_OneRecordPerCall ==
    (\A c \in Calls : pc[c] \in Done \cup {"idle"}) =>
        /\ Cardinality(DOMAIN performance_metrics) = Cardinality({c \in Calls : pc[c] \in Done})
        /\ \A c \in Calls : pc[c] \in Done =>
              /\ request_id[c] \in DOMAIN performance_metrics
              /\ performance_metrics[request_id[c]] = RecordOf(c)

\* C20: get_info() always succeeds and returns, for every configuration and
\* after any other operations, the descriptor with the identifier
\* "foundry-local", exactly the capability tags streaming, tools, offline
\* and hardware_optimized, no credential variables, and configurable fields
\* of the types choice and boolean only.
C20_GetInfoPure ==
    info.done =>
        /\ info.value.id = "foundry-local"
        /\ Len(info.value.capabilities) = 4
        /\ RangeOf(info.value.capabilities) = {"streaming", "tools", "offline", "hardware_optimized"}
        /\ info.value.credential_env_vars = <<>>
        /\ info.value.config_fields # <<>>
        /\ \A i \in DOMAIN info.value.config_fields :
              info.value.config_fields[i].field_type \in {"choice", "boolean"}
        /\ info.value.defaults =
              [model |-> "qwen2.5-7b-instruct-generic-gpu:4", max_tokens |-> 2048,
               temperature |-> 7, timeout |-> 30, offline_only |-> TRUE]

C20_Witness ==
    /\ info.done
    /\ pc[1] = "raised"
    /\ default_model = "my-model"
    /\ max_tokens = 0
    /\ info.value.id = "foundry-local"

C22_ParseToolCalls ==
    /\ [](parsed.done =>
            LET calls == vendor[parsed.call].response.choices[1].message.tool_calls
            IN /\ Len(parsed.tool_calls) = Len(calls)
               /\ \A i \in 1..Len(calls) : parsed.tool_calls[i] = ToolCall(calls[i]))
    /\ [][parsed' # parsed => UNCHANGED <<self_vars, performance_metrics, result, chat_response>>]_vars
C22_Witness ==
    /\ parsed.done
    /\ Len(parsed.tool_calls) = 2
    /\ parsed.tool_calls[1] # parsed.tool_calls[2]
    /\ result[parsed.call].response.tool_calls.list = parsed.tool_calls

C24_DiscoveryOnceAtConstruction ==
    /\ Len(discoveries) <= 1
    /\ \A i \in 1..Len(discoveries) : discoveries[i] = "__init__"

\* C25: the priority of an adapter is 50 when its configuration gives no
\* priority, and the configured value when it gives one.
C25_PriorityDefault ==
    built.status = "done" => priority = DictGet(env.config, "priority", 50)

\* C29: when the SDK and its configuration class are there and the handle
\* was built, the handle was constructed with an SDK configuration made of
\* the user's settings: hardware acceleration "auto" when
\* auto_hardware_optimization is enabled and "cpu" otherwise, and the
\* user's offline_mode, debug, timeout and max_tokens.
C29_SdkConfigFromSettings ==
    built.status = "done" /\ env.import = "ok" /\ manager =>
        /\ sdk_config.some
        /\ sdk_config.hardware_acceleration =
              (IF DictGet(env.config, "auto_hardware_optimization", TRUE) THEN "auto" ELSE "cpu")
        /\ sdk_config.offline_mode = DictGet(env.config, "offline_mode", TRUE)
        /\ sdk_config.debug_mode = DictGet(env.config, "debug", FALSE)
        /\ sdk_config.timeout = DictGet(env.config, "timeout", DEFAULT_TIMEOUT)
        /\ sdk_config.max_tokens = DictGet(env.config, "max_tokens", DEFAULT_MAX_TOKENS)

\* The user, assistant and tool messages of the request of call c.
Conversation(c) ==
    SelectSeq(request[c].messages, LAMBDA m : m.role \in {"user", "assistant", "tool"})

\* C26: the messages sent have one entry per user, assistant or tool message
\* of the request, in the request's order, and none for a message of another
\* role; a user or assistant entry has the role and the content of its
\* message; a tool entry has the role tool, the tool_call_id of its message,
\* and as content "[Tool: <name>]" and a newline followed by the content of
\* its message.  A content that is not a string is sent as its str()
\* rendering, and a tool message without tool name is named "unknown".
C26_MessagesTranslated ==
    \A x \in Issued :
        LET sent == wire[x[1]][x[2]].messages
            conv == Conversation(x[1])
        IN /\ Len(sent) = Len(conv)
           /\ \A i \in 1..Len(conv) :
                 /\ sent[i].role = conv[i].role
                 /\ IF conv[i].role = "tool"
                    THEN /\ DOMAIN sent[i] = {"role", "tool_call_id", "content"}
                         /\ sent[i].tool_call_id = conv[i].tool_call_id
                         /\ sent[i].content =
                               "[Tool: "
                               \o (IF conv[i].tool_name.some THEN conv[i].tool_name.v ELSE "unknown")
                               \o "]\n" \o conv[i].content.s
                    ELSE /\ DOMAIN sent[i] = {"role", "content"}
                         /\ sent[i].content = conv[i].content.s

\* C26 witness: a call issued for a request whose messages are a message of
\* another role and a tool message with a tool name.
C26_Witness ==
    \E x \in Issued :
        /\ Len(request[x[1]].messages) = 2
        /\ request[x[1]].messages[1].role = "developer"
        /\ request[x[1]].messages[2].role = "tool"
        /\ request[x[1]].messages[2].tool_name.some
        /\ Len(wire[x[1]][x[2]].messages) = 1

\* The terminal events among the events of call c.
Terminal(c) ==
    SelectSeq(events[c], LAMBDA e : e.name \in {"provider:request_complete", "provider:error"})

\* C27: on an adapter with an event bus, the first event of a call is its
\* request-start event, emitted before the network call is issued; a
\* terminal event is emitted only after the network call, if one was issued,
\* has ended; an unfinished call has no terminal event; a call that returned
\* has exactly one, the request-complete event, and a call that raised has
\* exactly one, the error event.
C27_LifecycleEventOrder ==
    \A c \in Calls :
        coordinator =>
            /\ wire[c] # <<>> \/ Terminal(c) # <<>> =>
                  /\ events[c] # <<>>
                  /\ events[c][1].name = "provider:request_start"
            /\ \A i \in 2..Len(events[c]) : events[c][i].name # "provider:request_start"
            /\ Terminal(c) # <<>> /\ wire[c] # <<>> => vendor[c].got \/ neterr[c] # NoError
            /\ pc[c] \notin Done => Terminal(c) = <<>>
            /\ pc[c] = "returned" =>
                  /\ Len(Terminal(c)) = 1
                  /\ Terminal(c)[1].name = "provider:request_complete"
            /\ pc[c] = "raised" =>
                  /\ Len(Terminal(c)) = 1
                  /\ Terminal(c)[1].name = "provider:error"
C27_Witness ==
    /\ coordinator
    /\ pc[1] = "raised"
    /\ vendor[1].got
    /\ Len(events[1]) = 2
    /\ events[1][2] = [name |-> "provider:error", delivered |-> FALSE]

\* C28: once a call whose request id no other call has is finished, the
\* performance log holds a record under its request id, with the success
\* flag true when the call returned a Chat Response and false when it
\* raised, the call whose response could not be translated included.
C28_RecordTellsOutcome ==
    \A c \in Calls :
        pc[c] \in Done /\ (\A d \in Calls \ {c} : request_id[d] # request_id[c]) =>
            /\ request_id[c] \in DOMAIN performance_metrics
            /\ performance_metrics[request_id[c]].success = (pc[c] = "returned")
            /\ performance_metrics[request_id[c]].success = (result[c].kind = "returned")
            /\ vendor[c].got /\ ~convert_openai_response_to_chat_response(vendor[c].response).ok
                  => ~performance_metrics[request_id[c]].success
C28_Witness ==
    /\ pc[1] = "raised"
    /\ vendor[1].got
    /\ request_id[1] \in DOMAIN performance_metrics
    /\ ~performance_metrics[request_id[1]].success
    /\ performance_metrics[request_id[1]].error_type = "JSONDecodeError"

\* The names the static resolution is checked on: the aliases and the
\* identifiers of the table, DEFAULT_MODEL, and a name the table does not know.
ModelNames == DOMAIN alias_to_id \cup RangeOf(alias_to_id) \cup {DEFAULT_MODEL, "my-model"}

\* C30: resolving the result of a static resolution gives that result again,
\* and no identifier of the table is an alias; so the model a call sends
\* after a static resolution resolves to itself, and a name that is already
\* an identifier, DEFAULT_MODEL included, is sent as it is.
C30_AliasResolutionIdempotent ==
    /\ \A x \in ModelNames :
          resolve_model_alias_to_id(resolve_model_alias_to_id(x)) = resolve_model_alias_to_id(x)
    /\ \A a \in DOMAIN alias_to_id : alias_to_id[a] \notin DOMAIN alias_to_id
    /\ resolve_model_alias_to_id(DEFAULT_MODEL) = DEFAULT_MODEL
    /\ \A x \in Issued :
          LET c == x[1]
              alias == DictGet(kwargs[c], "model", default_model)
              sent == wire[c][x[2]].model
          IN ~(manager /\ sdk[c].kind = "info") =>
                /\ sent = resolve_model_alias_to_id(alias)
                /\ resolve_model_alias_to_id(sent) = sent
                /\ alias \in RangeOf(alias_to_id) \cup {DEFAULT_MODEL} => sent = alias
C30_Witness ==
    \E x \in Issued :
        /\ ~manager
        /\ default_model = DEFAULT_MODEL
        /\ "model" \notin DOMAIN kwargs[x[1]]
        /\ wire[x[1]][x[2]].model = DEFAULT_MODEL

====
